---- MODULE Spec2Model ----
(***************************************************************************)
(* Model of the three crawl-to-Markdown scripts:                           *)
(*   scrape_folder_to_markdown.py  (batch, start-URL-relative mapper)      *)
(*   scrape_vscode_api_docs.py     (batch, whole-path mapper)              *)
(*   scrape_page_to_markdown.py    (single page, interactive)              *)
(*                                                                         *)
(* A Python str is a sequence of one-character strings.  In a raw URL path *)
(* a percent escape ("%2F", "%20", "%23") is one element; unquote turns it *)
(* into the character it encodes.  A pathlib.Path is the sequence of its   *)
(* parts, each part a str.                                                 *)
(***************************************************************************)
EXTENDS Integers, Sequences, FiniteSets, TLC

VARIABLES
    \* ---- mapper run and sanitizer run
    url,        \* mapper run: the crawled URL handed to the mappers
    url2,       \* mapper run: a second URL with the same decoded path
    start,      \* mapper run / batch run: the start URL
    outF,       \* mapper run: url_to_filepath(url, ...) of the folder script
    outV,       \* mapper run: url_to_filepath(url, ...) of the vscode script
    outF2,      \* mapper run: folder mapper applied to url2
    outV2,      \* mapper run: vscode mapper applied to url2
    url3,       \* mapper run: a third URL that differs from url in an interior component
    outF3,      \* mapper run: folder mapper applied to url3
    raw,        \* sanitizer run: the raw component
    sanKind,    \* sanitizer run: "component" (batch scripts) or "filename" (single page)
    san1,       \* sanitizer run: sanitize(raw)
    san2,       \* sanitizer run: sanitize(sanitize(raw))
    \* ---- batch run (main of the folder script and of the vscode script)
    variant,        \* "folder" or "vscode": which script runs
    results,        \* the list the crawler returned
    idx,            \* records of results the for loop has processed
    files,          \* file system: path -> content of every regular file
    dirs,           \* file system: the directories
    scraped_count,  \* the saved-files counter
    printed,        \* what the loop printed for each processed record
    bpc,            \* "loop" while the for loop runs, then "done"
    \* ---- single-page run (main of the page script); it shares files and dirs
    ppc,              \* where main stands: "ask_url", "ask_filename", "conflict",
                      \* "crawl", "save", "done"
    default_filename, \* generate_default_filename(url)
    output_path,      \* the Path the content will be written to
    markdown_content, \* the scraped markdown, "" while there is none
    crawlIssued,      \* crawler.arun was called
    lastAnswer,       \* the operator's latest answer to the conflict prompt
    prompts,          \* conflict prompts answered so far
    files0,           \* the files as they were when the run started
    renameOf,         \* the target the operator chose to rename, if any
    written           \* the path write_text was called on, if any

mapVars == <<url, url2, start, outF, outV, outF2, outV2, url3, outF3>>
sanVars == <<raw, sanKind, san1, san2>>
batchVars == <<variant, results, idx, files, dirs, scraped_count, printed, bpc>>
pageVars == <<ppc, default_filename, output_path, markdown_content, crawlIssued,
              lastAnswer, prompts, files0, renameOf, written>>
vars == <<mapVars, sanVars, batchVars, pageVars>>

\* Python's None where a Path is expected: no Path has zero parts
None == <<>>

\* a variable that holds nothing yet is <<>>; holding the value v it is <<v>>
Unset == <<>>

(***************************************************************************)
(* Python str operations used by the scripts                               *)
(***************************************************************************)
Min(a, b) == IF a < b THEN a ELSE b

\* "x" * n
Pad(n) == [i \in 1..n |-> "a"]

\* s[:n]
Truncate(s, n) == SubSeq(s, 1, Min(Len(s), n))

\* s.lstrip(chars)
LStrip(s, chars) ==
    IF \A i \in 1..Len(s) : s[i] \in chars THEN <<>>
    ELSE LET f == CHOOSE i \in 1..Len(s) :
                      s[i] \notin chars /\ \A j \in 1..(i-1) : s[j] \in chars
         IN  SubSeq(s, f, Len(s))

\* s.rstrip(chars)
RStrip(s, chars) ==
    IF \A i \in 1..Len(s) : s[i] \in chars THEN <<>>
    ELSE LET l == CHOOSE i \in 1..Len(s) :
                      s[i] \notin chars /\ \A j \in (i+1)..Len(s) : s[j] \in chars
         IN  SubSeq(s, 1, l)

\* s.strip(chars)
Strip(s, chars) == RStrip(LStrip(s, chars), chars)

\* s.split(sep): every piece, the empty ones included
RECURSIVE Split(_, _)
Split(s, sep) ==
    IF \A i \in 1..Len(s) : s[i] # sep THEN <<s>>
    ELSE LET i == CHOOSE k \in 1..Len(s) :
                      s[k] = sep /\ \A j \in 1..(k-1) : s[j] # sep
         IN  <<SubSeq(s, 1, i-1)>> \o Split(SubSeq(s, i+1, Len(s)), sep)

\* s.endswith(t)
EndsWith(s, t) ==
    /\ Len(s) >= Len(t)
    /\ SubSeq(s, Len(s) - Len(t) + 1, Len(s)) = t

LowerChar(c) ==
    CASE c = "M" -> "m"
      [] c = "D" -> "d"
      [] c = "A" -> "a"
      [] OTHER   -> c

\* s.lower()
Lower(s) == [i \in 1..Len(s) |-> LowerChar(s[i])]

DotMd == <<".", "m", "d">>
IndexMd == <<"i", "n", "d", "e", "x", ".", "m", "d">>

\* urllib.parse.unquote: each percent escape becomes the character it encodes
UnquoteChar(c) ==
    CASE c = "%2F" -> "/"
      [] c = "%20" -> " "
      [] c = "%23" -> "#"
      [] c = "%3F" -> "?"
      [] OTHER     -> c

Unquote(s) == [i \in 1..Len(s) |-> UnquoteChar(s[i])]

(***************************************************************************)
(* Component sanitization                                                  *)
(***************************************************************************)
\* the character class [<>:"\\|?*\s] of the batch scripts
ReservedClass == {"<", ">", ":", "\"", "\\", "|", "?", "*", " "}

\* the character class [<>:"/\\|?*\s] of the single-page script
ReservedClassPage == ReservedClass \cup {"/"}

\* re.sub(r'[class]', '_', s): every character of the class becomes "_"
ReSubEach(s, class) == [i \in 1..Len(s) |-> IF s[i] \in class THEN "_" ELSE s[i]]

\* re.sub(r'[class]+', '_', s): every maximal run of the class becomes one "_"
\* (a run of the class becomes "_"; a run outside the class is copied)
RECURSIVE ReSubRuns(_, _)
ReSubRuns(s, class) ==
    IF s = <<>> THEN <<>>
    ELSE IF Head(s) \in class
         THEN <<"_">> \o ReSubRuns(LStrip(s, class), class)
         ELSE LET rest == LStrip(s, {s[i] : i \in 1..Len(s)} \ class)
              IN  SubSeq(s, 1, Len(s) - Len(rest)) \o ReSubRuns(rest, class)

MaxComponentLen == 100
MaxNameLen == 150

\* (mutant) leading and trailing dots and underscores are kept
SanitizeComponentNoStrip(component) ==
    LET r1 == ReSubEach(component, ReservedClass)
        r2 == ReSubRuns(r1, {"_"})
    IN  Truncate(r2, MaxComponentLen)

\* the loop body of url_to_filepath: one raw component to one safe component
SanitizeComponent(component) ==
    LET r1 == ReSubEach(component, ReservedClass)
        r2 == ReSubRuns(r1, {"_"})
        r3 == Strip(r2, {".", "_"})
    IN  Truncate(r3, MaxComponentLen)

ScrapedPage == <<"s", "c", "r", "a", "p", "e", "d", "_", "p", "a", "g", "e">>

sanitize_filename(name) ==
    LET r1 == ReSubRuns(name, ReservedClassPage)
        r2 == ReSubRuns(r1, {"_"})
        r3 == Strip(r2, {".", "_"})
        r4 == Truncate(r3, MaxNameLen)
    IN  IF r4 = <<>> THEN ScrapedPage ELSE r4

\* for component in path_part.split('/'): ... if safe_component: append
SafeComponents(path_part) ==
    LET pieces == Split(path_part, "/")
        safe   == [i \in 1..Len(pieces) |-> SanitizeComponent(pieces[i])]
    IN  SelectSeq(safe, LAMBDA c : c # <<>>)

\* (mutant) the path is split without being percent-decoded
PathPartNoUnquote(u) == Split(LStrip(u.path, {"/"}), "#")[1]

\* unquote(parsed_url.path.lstrip('/')).split('#')[0]
PathPart(u) == Split(Unquote(LStrip(u.path, {"/"})), "#")[1]

(***************************************************************************)
(* URLs.  urlparse(url) is the record itself: netloc, path, query and      *)
(* fragment; two URL strings are equal exactly when their records are.     *)
(***************************************************************************)
MkUrl(netloc, path, query) == [netloc |-> netloc, path |-> path, query |-> query, fragment |-> ""]

\* urlparse raises ValueError ("Invalid IPv6 URL") on an unbalanced bracket
UrlParseRaises(u) ==
    /\ \E i \in 1..Len(u.netloc) : u.netloc[i] = "["
    /\ \A i \in 1..Len(u.netloc) : u.netloc[i] # "]"

\* parsed_url.path.endswith('/')
PathEndsWithSlash(u) == EndsWith(u.path, <<"/">>)

NonEmpty(seq) == SelectSeq(seq, LAMBDA c : c # <<>>)

\* filename += ".md" unless filename.lower().endswith(".md")
WithMd(filename) ==
    IF EndsWith(Lower(filename), DotMd) THEN filename ELSE filename \o DotMd

(***************************************************************************)
(* scrape_folder_to_markdown.py: url_to_filepath(url, base_dir, start_url) *)
(***************************************************************************)
\* [c for c in parsed_start.path.strip('/').split('/') if c]
StartComponents(start_url) == NonEmpty(Split(Strip(start_url.path, {"/"}), "/"))

\* url == start_url or (len(safe) <= len(start) and all(a == b for a, b in zip(safe, start)))
IsStartOrParent(u, start_url, safe, sc) ==
    \/ u = start_url
    \/ /\ Len(safe) <= Len(sc)
       /\ \A i \in 1..Len(safe) : safe[i] = sc[i]

\* safe_components[len(start_components):]
RemainingComponents(safe, sc) ==
    IF Len(safe) <= Len(sc) THEN <<>> ELSE SubSeq(safe, Len(sc) + 1, Len(safe))

\* (mutant) the trailing slash is not looked at: a single remaining component
\* always names the file
SplitRemainingNoSlashTest(u, base_dir, rem) ==
    IF rem = <<>> THEN <<base_dir, IndexMd>>
    ELSE IF Len(rem) = 1
         THEN <<base_dir, WithMd(rem[1])>>
         ELSE <<base_dir, rem[1], WithMd(rem[Len(rem)])>>

\* (mutant) the empty remainder is not tested: indexing it raises IndexError,
\* which url_to_filepath turns into None
SplitRemainingNoEmptyTest(u, base_dir, rem) ==
    IF rem = <<>> THEN None
    ELSE IF Len(rem) = 1
         THEN IF PathEndsWithSlash(u)
              THEN <<base_dir, rem[1], IndexMd>>
              ELSE <<base_dir, WithMd(rem[1])>>
         ELSE <<base_dir, rem[1], WithMd(rem[Len(rem)])>>

\* (mutant) the interior components are kept as nested directories
SplitRemainingNested(u, base_dir, rem) ==
    IF rem = <<>> THEN <<base_dir, IndexMd>>
    ELSE IF Len(rem) = 1
         THEN IF PathEndsWithSlash(u)
              THEN <<base_dir, rem[1], IndexMd>>
              ELSE <<base_dir, WithMd(rem[1])>>
         ELSE <<base_dir>> \o SubSeq(rem, 1, Len(rem) - 1) \o <<WithMd(rem[Len(rem)])>>

\* the directory/filename split over the remaining components
SplitRemaining(u, base_dir, rem) ==
    IF rem = <<>> THEN <<base_dir, IndexMd>>
    ELSE IF Len(rem) = 1
         THEN IF PathEndsWithSlash(u)
              THEN <<base_dir, rem[1], IndexMd>>
              ELSE <<base_dir, WithMd(rem[1])>>
         ELSE <<base_dir, rem[1], WithMd(rem[Len(rem)])>>

url_to_filepath(u, base_dir, start_url) ==
    IF UrlParseRaises(u) \/ UrlParseRaises(start_url) THEN None
    ELSE LET safe == SafeComponents(PathPart(u))
             sc   == StartComponents(start_url)
         IN  IF IsStartOrParent(u, start_url, safe, sc)
             THEN <<base_dir, IndexMd>>
             ELSE SplitRemaining(u, base_dir, RemainingComponents(safe, sc))

(***************************************************************************)
(* scrape_vscode_api_docs.py: url_to_filepath(url, base_dir)               *)
(***************************************************************************)
Api == <<"a", "p", "i">>
Host == <<"e", ".", "c", "o", "m">>

START_URL == MkUrl(Host, <<"/">> \o Api, "")

vscode_url_to_filepath(u, base_dir) ==
    IF UrlParseRaises(u) THEN None
    ELSE LET safe == SafeComponents(PathPart(u))
             base_api_path_components == NonEmpty(Split(Strip(START_URL.path, {"/"}), "/"))
             is_base_api_path == safe = base_api_path_components
         IN  IF safe = <<>> \/ PathEndsWithSlash(u) \/ is_base_api_path
             THEN <<base_dir>> \o safe \o <<IndexMd>>
             ELSE <<base_dir>> \o SubSeq(safe, 1, Len(safe) - 1)
                               \o <<WithMd(safe[Len(safe)])>>

(***************************************************************************)
(* Inputs of the mapper run                                                *)
(***************************************************************************)
MaxDepth == 3          \* raw components of a crawled URL's path
OutputDir == <<"o", "u", "t">>

\* a component that the length limit cuts right after an underscore
LongComponent == Pad(MaxComponentLen - 1) \o <<"_", "b">>

RawPool ==
    { Api,
      <<"g">>,
      <<"x", ".", "M", "D">>,
      <<"%20", "w", ":", "z">>,
      <<".", ".", "%2F", "x">> }

RECURSIVE JoinSlash(_)
JoinSlash(cs) == IF cs = <<>> THEN <<>> ELSE <<"/">> \o Head(cs) \o JoinSlash(Tail(cs))

RECURSIVE ComponentLists(_)
ComponentLists(n) ==
    IF n = 0 THEN {<<>>}
    ELSE LET shorter == ComponentLists(n - 1)
         IN  shorter \cup {Append(cs, c) : cs \in {x \in shorter : Len(x) = n - 1}, c \in RawPool}

\* "/c1/c2", "/c1/c2/", and the root "/"
\* paths with a component longer than the length limit
LongPaths ==
    { JoinSlash(<<Api, LongComponent>>),
      JoinSlash(<<Api, LongComponent>>) \o <<"/">>,
      JoinSlash(<<Api, <<"g">>, LongComponent>>) }

\* paths with backslashes and dot components in them
SeparatorPaths ==
    { JoinSlash(<<Api, <<"g", "\\", "x">>>>),
      JoinSlash(<<Api, <<".", ".", "\\", "x">>, <<".">>, <<"g">>>>),
      JoinSlash(<<<<".", ".">>, <<".", ".">>, <<"g">>>>) }

\* "/c1/c2", "/c1/c2/", and the root "/"
RawPaths ==
    {JoinSlash(cs) : cs \in ComponentLists(MaxDepth) \ {<<>>}}
        \cup {JoinSlash(cs) \o <<"/">> : cs \in ComponentLists(MaxDepth)}
        \cup LongPaths
        \cup SeparatorPaths

Queries == {"", "q=1"}

BadUrl == MkUrl(<<"[", "b", "a", "d">>, <<"/">> \o Api, "")

Urls == {MkUrl(Host, p, "") : p \in RawPaths} \cup {BadUrl}

Starts ==
    { START_URL,
      MkUrl(Host, <<"/">> \o Api \o <<"/">>, ""),
      MkUrl(Host, <<"/">>, ""),
      MkUrl(Host, <<"/">> \o Api \o <<"/", "g">>, ""),
      MkUrl(Host, <<"/">> \o Api \o <<"%2F", "g">>, ""),
      MkUrl(Host, <<"/", "%20", "w", ":", "z">>, "") }

\* the raw elements that unquote maps to the same character as c
SameDecoded(c) == {t \in {"/", "%2F", c} : UnquoteChar(t) = UnquoteChar(c)}

\* the raw paths with the same percent-decoded path as p that differ from p in
\* the encoding of at most one character
EncodingsOf(p) ==
    {p} \cup UNION {{[p EXCEPT ![i] = h] : h \in SameDecoded(p[i])} : i \in 1..Len(p)}

\* the raw components of a URL's path
PathComponents(u) == NonEmpty(Split(Strip(u.path, {"/"}), "/"))

\* URLs that differ from u in one component that is neither the first nor the
\* last of the path: it is another one, or it is missing
Siblings(u) ==
    LET cs    == PathComponents(u)
        n     == Len(cs)
        slash == IF PathEndsWithSlash(u) THEN <<"/">> ELSE <<>>
    IN  UNION { {MkUrl(u.netloc, JoinSlash([cs EXCEPT ![i] = c]) \o slash, u.query)
                    : c \in RawPool \ {cs[i]}}
                \cup {MkUrl(u.netloc,
                            JoinSlash(SubSeq(cs, 1, i - 1) \o SubSeq(cs, i + 1, n)) \o slash,
                            u.query)}
              : i \in 2..(n - 1) }

\* URLs that differ from u only in percent-encoding of the path and in the query
Variants(u) == {MkUrl(u.netloc, p, q) : p \in EncodingsOf(u.path), q \in Queries}

(***************************************************************************)
(* Mapper run: the crawler hands one URL to both mappers                   *)
(***************************************************************************)
SanIdle == raw = Unset /\ sanKind = "component" /\ san1 = Unset /\ san2 = Unset

BatchIdle ==
    /\ variant = "folder" /\ results = <<>> /\ idx = 0
    /\ files = <<>> /\ dirs = {} /\ scraped_count = 0 /\ printed = <<>>
    /\ bpc = "done"

PageIdle ==
    /\ ppc = "done" /\ default_filename = Unset /\ output_path = Unset
    /\ markdown_content = "" /\ crawlIssued = FALSE /\ lastAnswer = Unset
    /\ prompts = 0 /\ files0 = <<>> /\ renameOf = Unset /\ written = Unset

InitMap ==
    /\ url \in Urls
    /\ start \in Starts
    /\ url2 = Unset
    /\ outF = Unset /\ outV = Unset /\ outF2 = Unset /\ outV2 = Unset
    /\ url3 = Unset /\ outF3 = Unset
    /\ SanIdle /\ BatchIdle /\ PageIdle

MapFolder ==
    /\ outF = Unset
    /\ outF' = <<url_to_filepath(url, OutputDir, start)>>
    /\ UNCHANGED <<url, url2, start, outV, outF2, outV2, url3, outF3, sanVars, batchVars, pageVars>>

MapVscode ==
    /\ outV = Unset
    /\ outV' = <<vscode_url_to_filepath(url, OutputDir)>>
    /\ UNCHANGED <<url, url2, start, outF, outF2, outV2, url3, outF3, sanVars, batchVars, pageVars>>

\* the crawler returns another URL with the same decoded path
MapVariant ==
    /\ url2 = Unset /\ url3 = Unset
    /\ outF # Unset /\ outV # Unset
    /\ \E v \in Variants(url) :
          /\ url2' = <<v>>
          /\ outF2' = <<url_to_filepath(v, OutputDir, start)>>
          /\ outV2' = <<vscode_url_to_filepath(v, OutputDir)>>
    /\ UNCHANGED <<url, start, outF, outV, url3, outF3, sanVars, batchVars, pageVars>>

\* the crawler returns another URL that differs from the first in one interior
\* component of the path
MapSibling ==
    /\ url2 = Unset /\ url3 = Unset
    /\ outF # Unset /\ outV # Unset
    /\ \E v \in Siblings(url) :
          /\ url3' = <<v>>
          /\ outF3' = <<url_to_filepath(v, OutputDir, start)>>
    /\ UNCHANGED <<url, url2, start, outF, outV, outF2, outV2, sanVars, batchVars, pageVars>>

NextMap == MapFolder \/ MapVscode \/ MapVariant \/ MapSibling

SpecMap == InitMap /\ [][NextMap]_vars

(***************************************************************************)
(* Sanitizer run: one raw component is sanitized, and the result again     *)
(***************************************************************************)
MaxTail == 3           \* characters that follow the padding of a raw component

SanAlphabet == {"a", "_", ".", " ", "?"}

RECURSIVE Tails(_)
Tails(n) ==
    IF n = 0 THEN {<<>>}
    ELSE LET shorter == Tails(n - 1)
         IN  shorter \cup {Append(t, c) : t \in {x \in shorter : Len(x) = n - 1}, c \in SanAlphabet}

PadLens == {0, MaxComponentLen - 2, MaxComponentLen - 1, MaxNameLen - 2, MaxNameLen - 1}

RawComponents == {Pad(n) \o t : n \in PadLens, t \in Tails(MaxTail)}

MapIdle ==
    /\ url = Unset /\ url2 = Unset /\ start = Unset
    /\ outF = Unset /\ outV = Unset /\ outF2 = Unset /\ outV2 = Unset
    /\ url3 = Unset /\ outF3 = Unset

Sanitize(kind, s) ==
    IF kind = "component" THEN SanitizeComponent(s) ELSE sanitize_filename(s)

InitSan ==
    /\ raw \in {<<r>> : r \in RawComponents}
    /\ sanKind \in {"component", "filename"}
    /\ san1 = Unset /\ san2 = Unset
    /\ MapIdle /\ BatchIdle /\ PageIdle

SanitizeOnce ==
    /\ san1 = Unset
    /\ san1' = <<Sanitize(sanKind, raw[1])>>
    /\ UNCHANGED <<raw, sanKind, san2, mapVars, batchVars, pageVars>>

SanitizeAgain ==
    /\ san1 # Unset /\ san2 = Unset
    /\ san2' = <<Sanitize(sanKind, san1[1])>>
    /\ UNCHANGED <<raw, sanKind, san1, mapVars, batchVars, pageVars>>

NextSan == SanitizeOnce \/ SanitizeAgain

SpecSan == InitSan /\ [][NextSan]_vars

(***************************************************************************)
(* File system operations of pathlib used by the scripts                   *)
(***************************************************************************)
\* filepath.parent
Parent(path) == SubSeq(path, 1, Len(path) - 1)

\* a directory and all its ancestors
Prefixes(d) == {SubSeq(d, 1, k) : k \in 1..Len(d)}

\* mkdir(parents=True, exist_ok=True) raises FileExistsError or
\* NotADirectoryError when the directory or an ancestor is a regular file
MkdirBlocked(fs, d) == \E q \in Prefixes(d) : q \in DOMAIN fs

\* the directories after filepath.parent.mkdir(parents=True, exist_ok=True)
Mkdir(ds, d) == ds \cup Prefixes(d)

\* write_text raises IsADirectoryError when the path is a directory
WriteBlocked(ds, path) == path \in ds

\* (mutant) a write that leaves an existing file alone
WriteTextKeepExisting(fs, path, data) ==
    IF path \in DOMAIN fs THEN fs
    ELSE [q \in DOMAIN fs \cup {path} |-> IF q = path THEN data ELSE fs[q]]

\* the files after path.write_text(data) completed
WriteText(fs, path, data) ==
    [q \in DOMAIN fs \cup {path} |-> IF q = path THEN data ELSE fs[q]]

\* what a file holds when write_text opened (and so truncated) it and then
\* raised before any data reached it
Truncated == ""

(***************************************************************************)
(* Batch run: the for loop over the crawl results in main                  *)
(***************************************************************************)
MaxResults == 2        \* records in the list the crawler returned

BatchUrls ==
    { MkUrl(Host, JoinSlash(<<Api, <<"x", ".", "M", "D">>>>), ""),
      MkUrl(Host, JoinSlash(<<Api, <<"x", ".", "M", "D">>, <<"g">>>>), ""),
      MkUrl(Host, JoinSlash(<<Api, <<"x", ".", "M", "D">>, <<"g">>, <<"g">>>>), ""),
      BadUrl }

Markdowns == {"m1", "m2"}

CrawlResults ==
    [url : BatchUrls, success : {TRUE}, markdown : Markdowns]
        \cup [url : {START_URL}, success : {FALSE}, markdown : {"", "m1"}]
        \cup [url : {START_URL}, success : {TRUE}, markdown : {""}]

RECURSIVE ResultLists(_)
ResultLists(n) ==
    IF n = 0 THEN {<<>>}
    ELSE LET shorter == ResultLists(n - 1)
         IN  shorter \cup {Append(rs, r) : rs \in {x \in shorter : Len(x) = n - 1},
                                           r \in CrawlResults}

\* if result.success and result.markdown
Eligible(result) == result.success /\ result.markdown # ""

\* filepath = url_to_filepath(result.url, OUTPUT_DIR[, START_URL])
FilePathOf(v, result) ==
    IF v = "folder" THEN url_to_filepath(result.url, OutputDir, START_URL)
    ELSE vscode_url_to_filepath(result.url, OutputDir)

\* scraped_count += 1 comes after write_text inside the try block
CountAfter(count, line) == IF line = "SAVED" THEN count + 1 ELSE count

\* (mutant) an error on one record ends the loop
LoopAfterAbortOnError(line) ==
    IF line \in {"ERROR convert", "ERROR save"} THEN "done" ELSE "loop"

\* the try/except inside the loop body: whatever a record printed, the for loop
\* goes on to the next record
LoopAfter(line) == "loop"

InitBatch ==
    /\ variant \in {"folder", "vscode"}
    /\ results \in ResultLists(MaxResults)
    /\ idx = 0
    /\ files = <<>>
    /\ dirs = {<<OutputDir>>}
    /\ scraped_count = 0
    /\ printed = <<>>
    /\ bpc = "loop"
    /\ MapIdle /\ SanIdle /\ PageIdle

Current == results[idx + 1]

\* the bookkeeping shared by every way a loop iteration can end
Processed(line) ==
    /\ idx' = idx + 1
    /\ printed' = Append(printed, line)
    /\ scraped_count' = CountAfter(scraped_count, line)
    /\ bpc' = LoopAfter(line)
    /\ UNCHANGED <<variant, results, mapVars, sanVars, pageVars>>

InLoop == bpc = "loop" /\ idx < Len(results)

\* not (success and markdown): [FAILED] is printed for a failed page, nothing
\* for a page without markdown
SkipRecord ==
    /\ InLoop
    /\ ~Eligible(Current)
    /\ Processed(IF Current.success THEN "" ELSE "FAILED")
    /\ UNCHANGED <<files, dirs>>

\* url_to_filepath returned None
MapFails ==
    /\ InLoop
    /\ Eligible(Current)
    /\ FilePathOf(variant, Current) = None
    /\ Processed("ERROR convert")
    /\ UNCHANGED <<files, dirs>>

\* filepath.parent.mkdir raised OSError: a file is in the way, or the
\* environment refused (permissions, disk)
MkdirRaises ==
    /\ InLoop
    /\ Eligible(Current)
    /\ FilePathOf(variant, Current) # None
    /\ Processed("ERROR save")
    /\ UNCHANGED <<files, dirs>>

\* filepath.write_text raised OSError: the path is a directory, or the
\* environment refused before the file was opened, or after it was opened
WriteRaises ==
    /\ InLoop
    /\ Eligible(Current)
    /\ LET path == FilePathOf(variant, Current)
       IN  /\ path # None
           /\ ~MkdirBlocked(files, Parent(path))
           /\ dirs' = Mkdir(dirs, Parent(path))
           /\ \E opened \in BOOLEAN :
                 files' = IF opened /\ ~WriteBlocked(dirs', path)
                          THEN WriteText(files, path, Truncated)
                          ELSE files
    /\ Processed("ERROR save")

\* mkdir and write_text completed: [SAVED]
SaveRecord ==
    /\ InLoop
    /\ Eligible(Current)
    /\ LET path == FilePathOf(variant, Current)
       IN  /\ path # None
           /\ ~MkdirBlocked(files, Parent(path))
           /\ dirs' = Mkdir(dirs, Parent(path))
           /\ ~WriteBlocked(dirs', path)
           /\ files' = WriteText(files, path, Current.markdown)
    /\ Processed("SAVED")

\* the list is exhausted: the summary is printed
FinishLoop ==
    /\ bpc = "loop"
    /\ idx = Len(results)
    /\ bpc' = "done"
    /\ UNCHANGED <<variant, results, idx, files, dirs, scraped_count, printed,
                   mapVars, sanVars, pageVars>>

NextBatch ==
    SkipRecord \/ MapFails \/ MkdirRaises \/ WriteRaises \/ SaveRecord \/ FinishLoop

SpecBatch == InitBatch /\ [][NextBatch]_vars

(***************************************************************************)
(* Claims about the mappers and the sanitizers                             *)
(***************************************************************************)
FileName(path) == path[Len(path)]

\* C1 (as claimed): whenever the crawled URL's path ends with "/", both mappers
\* return a path whose filename is exactly index.md.
C1_TrailingSlashIsIndex ==
    /\ (outF # Unset /\ outF[1] # None /\ PathEndsWithSlash(url))
           => FileName(outF[1]) = IndexMd
    /\ (outV # Unset /\ outV[1] # None /\ PathEndsWithSlash(url))
           => FileName(outV[1]) = IndexMd

\* C1 (amended): when the crawled URL's path ends with "/", the whole-path
\* mapper names the file index.md; the start-URL-relative mapper names it
\* index.md when at most one component remains after the start prefix, and after
\* the last remaining component (".md" appended unless present) when two or more
\* remain.
C1_TrailingSlashNames ==
    /\ (outV # Unset /\ outV[1] # None /\ PathEndsWithSlash(url))
           => FileName(outV[1]) = IndexMd
    /\ (outF # Unset /\ outF[1] # None /\ PathEndsWithSlash(url))
           => LET safe == SafeComponents(PathPart(url))
                  sc   == StartComponents(start)
              IN  IF url = start \/ Len(safe) <= Len(sc) + 1
                  THEN FileName(outF[1]) = IndexMd
                  ELSE FileName(outF[1]) = WithMd(safe[Len(safe)])

\* a URL ending with "/" that the whole-path mapper maps to index.md and the
\* start-URL-relative mapper to a file named after its last component; and one
\* with a single remaining component mapped to index.md in a subfolder
C1_Witness ==
    /\ PathEndsWithSlash(url)
    /\ outV # Unset /\ outV[1] # None /\ FileName(outV[1]) = IndexMd
    /\ outF # Unset /\ outF[1] # None /\ FileName(outF[1]) # IndexMd

\* C2 (as claimed): sanitizing a sanitized component changes nothing.
C2_SanitizeIdempotent == san2 # Unset => san2 = san1

Clean(c) ==
    /\ \A i \in 1..Len(c) : c[i] \notin ReservedClass
    /\ c # <<>> => (c[1] \notin {".", "_"} /\ c[Len(c)] \notin {".", "_"})

\* C3 (as claimed): a sanitized component holds no reserved character and no
\* whitespace, and neither starts nor ends with "." or "_".
C3_SanitizedIsClean == san1 # Unset => Clean(san1[1])

\* C6 (as claimed): two URLs with the same percent-decoded path map to the
\* same file path in both mappers.
C6_SameDecodedPathSameFile ==
    url2 # Unset => (outF2 = outF /\ outV2 = outV)

\* C6 (amended): two URLs with the same percent-decoded path whose raw paths
\* agree on ending with a literal "/" map to the same file path in the
\* whole-path mapper, and in the start-URL-relative mapper when neither of them
\* is the start URL string itself.
C6_SameDecodedSameSlash ==
    url2 # Unset =>
        (PathEndsWithSlash(url2[1]) = PathEndsWithSlash(url) =>
            /\ outV2 = outV
            /\ (url2[1] # start /\ url # start) => outF2 = outF)

\* a URL and a variant of it with an encoded slash inside the path and a query
\* string, mapped to the same file by both mappers
C6_Witness ==
    /\ url2 # Unset
    /\ url2[1].path # url.path
    /\ url2[1].query # url.query
    /\ PathEndsWithSlash(url2[1]) = PathEndsWithSlash(url)
    /\ outF2 = outF /\ outV2 = outV
    /\ outF[1] # None /\ Len(outF[1]) = 3 /\ Len(outV[1]) > 3

\* the component list of u leaves nothing once the start URL's is removed
NoneRemain(u, s) == Len(SafeComponents(PathPart(u))) <= Len(StartComponents(s))

\* C9: in the start-URL-relative mapper the start URL itself, and every URL
\* with no components left after the start prefix, maps to <outputRoot>/index.md.
C9_StartMapsToRootIndex ==
    (outF # Unset /\ ~UrlParseRaises(url) /\ (url = start \/ NoneRemain(url, start)))
        => outF[1] = <<OutputDir, IndexMd>>

\* a sibling of the start URL (not the start URL, not a prefix of it) mapped to
\* the root index
C9_Witness ==
    /\ outF = <<<<OutputDir, IndexMd>>>>
    /\ url # start
    /\ NoneRemain(url, start)
    /\ SafeComponents(PathPart(url)) # <<>>
    /\ SafeComponents(PathPart(url))[1] # StartComponents(start)[1]

\* the start URL's path decomposed as a crawled URL's is: decoded, sanitized,
\* empty components dropped
DecodedStartComponents(s) == SafeComponents(PathPart(s))

\* u lies below s: the components of s are a proper prefix of those of u
Below(u, s) ==
    LET safe == SafeComponents(PathPart(u))
        ss   == DecodedStartComponents(s)
    IN  Len(ss) < Len(safe) /\ SubSeq(safe, 1, Len(ss)) = ss

\* the components of u that follow the start prefix
ComponentsAfterStart(u, s) ==
    LET safe == SafeComponents(PathPart(u))
    IN  SubSeq(safe, Len(DecodedStartComponents(s)) + 1, Len(safe))

\* C11 (as claimed): for a crawled URL below the start URL, the start-URL-relative
\* mapper computes the directory/filename split from exactly the components that
\* follow the start URL's decoded, sanitized components.
C11_SplitFromComponentsAfterStart ==
    (outF # Unset /\ ~UrlParseRaises(url) /\ Below(url, start))
        => outF[1] = SplitRemaining(url, OutputDir, ComponentsAfterStart(url, start))

\* the remaining components the mapper works with
Remaining(u, s) == RemainingComponents(SafeComponents(PathPart(u)), StartComponents(s))

\* C12: a path mapped by the start-URL-relative mapper has at most one directory
\* between the output root and the file; with two or more remaining components
\* it is <root>/<first remaining>/<last remaining + ".md">, and two URLs with
\* the same first and last remaining components map to the same path.
C12_FlatHierarchy ==
    /\ (outF # Unset /\ outF[1] # None) =>
           LET rem == Remaining(url, start)
           IN  /\ Len(outF[1]) <= 3
               /\ outF[1][1] = OutputDir
               /\ (url # start /\ Len(rem) >= 2)
                      => outF[1] = <<OutputDir, rem[1], WithMd(rem[Len(rem)])>>
    /\ (url3 # Unset /\ outF[1] # None /\ outF3[1] # None) =>
           LET rem  == Remaining(url, start)
               rem3 == Remaining(url3[1], start)
           IN  (/\ url # start /\ url3[1] # start
                /\ Len(rem) >= 2 /\ Len(rem3) >= 2
                /\ rem[1] = rem3[1] /\ rem[Len(rem)] = rem3[Len(rem3)])
                   => outF3 = outF

\* two URLs with three and with two or three remaining components, different in
\* the interior one, mapped to the same file one directory below the root
C12_Witness ==
    /\ url3 # Unset
    /\ Len(Remaining(url, start)) = 3
    /\ Len(Remaining(url3[1], start)) >= 2
    /\ Remaining(url3[1], start) # Remaining(url, start)
    /\ outF3 = outF
    /\ outF[1] # None /\ Len(outF[1]) = 3
    /\ outF[1][2] = Remaining(url, start)[1]

\* a component that cannot leave the directory it is joined to
Inside(c) ==
    /\ c \notin {<<".">>, <<".", ".">>}
    /\ \A i \in 1..Len(c) : c[i] \notin {"/", "\\"}

InsideRoot(path) ==
    /\ path[1] = OutputDir
    /\ \A i \in 2..Len(path) : Inside(path[i])

\* C13: every path returned by either batch mapper is the output root followed
\* by components none of which is "." or ".." or holds "/" or "\".
C13_MappedInsideRoot ==
    \A o \in {outF, outV, outF2, outV2, outF3} :
        (o # Unset /\ o[1] # None) => InsideRoot(o[1])

\* a URL with ".." components, and a variant of it with a percent-encoded "../",
\* both mapped by both mappers
C13_Witness ==
    /\ \E i \in 1..Len(Split(PathPart(url), "/")) :
           Split(PathPart(url), "/")[i] = <<".", ".">>
    /\ url2 # Unset
    /\ \E i \in 1..Len(url2[1].path) : url2[1].path[i] = "%2F"
    /\ outF[1] # None /\ outV[1] # None /\ outF2[1] # None /\ outV2[1] # None
    /\ Len(outV2[1]) >= 2

(***************************************************************************)
(* Claims about the batch run                                              *)
(***************************************************************************)
Max(S) == CHOOSE m \in S : \A n \in S : n <= m

SavedCount == Cardinality({i \in 1..Len(printed) : printed[i] = "SAVED"})

\* what record i may print, from the record alone
PrintsAllowed(i) ==
    IF ~Eligible(results[i]) THEN {"", "FAILED"}
    ELSE IF FilePathOf(variant, results[i]) = None THEN {"ERROR convert"}
    ELSE {"SAVED", "ERROR save"}

\* C7: a failure on one record (no path from the mapper, mkdir or write_text
\* raising) is confined to it: the loop ends only when every record of the list
\* has been processed, each record is treated according to its own fields
\* whatever happened before it, and the saved-files counter counts exactly the
\* records whose write completed (whose content is then in the file).
C7_FailureConfined ==
    /\ bpc = "done" => idx = Len(results)
    /\ Len(printed) = idx
    /\ \A i \in 1..idx : printed[i] \in PrintsAllowed(i)
    /\ scraped_count = SavedCount
    /\ (idx > 0 /\ printed[idx] = "SAVED") =>
           LET path == FilePathOf(variant, results[idx])
           IN  path \in DOMAIN files /\ files[path] = results[idx].markdown

\* a record saved after the write of the record before it raised
C7_Witness ==
    /\ bpc = "done"
    /\ printed = <<"ERROR save", "SAVED">>
    /\ scraped_count = 1

\* the records saved to path p so far
SavedTo(p) ==
    {i \in 1..idx : printed[i] = "SAVED" /\ FilePathOf(variant, results[i]) = p}

\* the records whose save to path p raised
FailedOn(p) ==
    {i \in 1..idx : /\ printed[i] = "ERROR save"
                    /\ FilePathOf(variant, results[i]) = p}

\* C8 (as claimed): every written path holds the markdown of the last record
\* that mapped to it and was written successfully.
C8_LastSuccessfulWriterWins ==
    \A p \in DOMAIN files :
        SavedTo(p) # {} => files[p] = results[Max(SavedTo(p))].markdown

\* C8 (amended): every written path holds the markdown of the last record that
\* mapped to it and was written successfully, unless the write of a later record
\* to the same path raised after opening the file, which leaves it truncated.
C8_LastWriterWinsOrTruncated ==
    \A p \in DOMAIN files :
        SavedTo(p) # {} =>
            \/ files[p] = results[Max(SavedTo(p))].markdown
            \/ /\ files[p] = Truncated
               /\ \E j \in FailedOn(p) : j > Max(SavedTo(p))

\* two different URLs saved to one path with different markdown: the later wins
C8_Witness ==
    \E p \in DOMAIN files :
        /\ Cardinality(SavedTo(p)) >= 2
        /\ \E i, j \in SavedTo(p) :
              /\ i < j
              /\ results[i].url # results[j].url
              /\ results[i].markdown # results[j].markdown
              /\ j = Max(SavedTo(p))
              /\ files[p] = results[j].markdown

(***************************************************************************)
(* scrape_page_to_markdown.py: names and paths                             *)
(***************************************************************************)
HasDot(name) == \E i \in 1..Len(name) : name[i] = "."

\* name.rfind('.'), counted from 1
LastDot(name) == Max({i \in 1..Len(name) : name[i] = "."})

\* PurePath.suffix: the last dot starts the suffix unless it is the first or the
\* last character of the name
Suffix(name) ==
    IF HasDot(name) /\ 1 < LastDot(name) /\ LastDot(name) < Len(name)
    THEN SubSeq(name, LastDot(name), Len(name))
    ELSE <<>>

\* PurePath.stem
Stem(name) == SubSeq(name, 1, Len(name) - Len(Suffix(name)))

\* os.path.splitext(name)[0]: the last dot starts the extension when a
\* character other than "." comes before it
SplitextBase(name) ==
    IF HasDot(name) /\ \E i \in 1..(LastDot(name) - 1) : name[i] # "."
    THEN SubSeq(name, 1, LastDot(name) - 1)
    ELSE name

\* Path(s): the parts between slashes, the empty ones and "." dropped
PathOf(str) == SelectSeq(Split(str, "/"), LAMBDA part : part # <<>> /\ part # <<".">>)

\* parsed.netloc.replace('.', '_') if parsed.netloc else 'scraped_page'
NetlocName(u) ==
    IF u.netloc = <<>> THEN ScrapedPage
    ELSE [i \in 1..Len(u.netloc) |-> IF u.netloc[i] = "." THEN "_" ELSE u.netloc[i]]

\* the last path segment, the one before it when the last is empty, and the
\* host name when that is empty too
LastSegmentName(u, path_part) ==
    LET pieces == Split(path_part, "/")
        last   == pieces[Len(pieces)]
        name   == IF last = <<>> /\ Len(pieces) > 1 THEN pieces[Len(pieces) - 1] ELSE last
    IN  IF name = <<>> THEN NetlocName(u) ELSE name

generate_default_filename(u) ==
    IF UrlParseRaises(u) THEN ScrapedPage \o DotMd
    ELSE LET path_part == Unquote(Strip(u.path, {"/"}))
             name == IF path_part = <<>> THEN NetlocName(u)
                     ELSE LastSegmentName(u, path_part)
         IN  WithMd(sanitize_filename(SplitextBase(name)))

\* output_path.exists()
Exists(fs, ds, path) == path \in DOMAIN fs \/ path \in ds

Digits == <<"1", "2", "3", "4", "5", "6", "7", "8", "9">>

\* str(counter)
Str(k) == <<Digits[k]>>

\* Path(f"{base}_{counter}{ext}") with base, ext the stem and suffix of the target
RenameCandidate(path, k) ==
    PathOf(Stem(path[Len(path)]) \o <<"_">> \o Str(k) \o Suffix(path[Len(path)]))

\* the inner while loop: counter runs from 1 until the candidate does not exist
RenamedPath(fs, ds, path) ==
    LET free == {k \in 1..Len(Digits) : ~Exists(fs, ds, RenameCandidate(path, k))}
        k    == CHOOSE c \in free : \A d \in free : c <= d
    IN  RenameCandidate(path, k)

\* input(...).strip().lower()
NormalizeAnswer(ans) == Lower(Strip(ans, {" "}))

\* (mutant) any answer that is not abort or rename proceeds like overwrite
AfterAnswerDefaultOverwrite(action) ==
    IF action = <<"a">> THEN "done" ELSE "crawl"

\* where the conflict loop goes on an answer: break, return, break, or again
AfterAnswer(action) ==
    CASE action = <<"o">> -> "crawl"
      [] action = <<"a">> -> "done"
      [] action = <<"r">> -> "crawl"
      [] OTHER            -> "conflict"

\* (mutant) the save block runs whatever was scraped
HasContentAlways(md) == TRUE

\* if markdown_content: (None and the empty string are both false)
HasContent(md) == md # ""

(***************************************************************************)
(* Single-page run: main of the page script                                *)
(***************************************************************************)
MaxPrompts == 2        \* invalid answers the operator gives in one run

Report == <<"r", "e", "p", "o", "r", "t">>
Out == <<"o", "u", "t">>
ReportMd == Report \o DotMd
Report1Md == Report \o <<"_", "1">> \o DotMd

PageUrls ==
    { MkUrl(Host, JoinSlash(<<Api, Report \o <<".", "h", "t", "m", "l">>>>), ""),
      MkUrl(Host, JoinSlash(<<Api, ReportMd>>) \o <<"/">>, ""),
      MkUrl(Host, <<"/">>, ""),
      MkUrl(Host, JoinSlash(<<Api, Pad(MaxNameLen - 1) \o <<"_", "b", ".", "m", "d">>>>), ""),
      BadUrl }

\* what the operator types at the filename prompt
FilenameInputs ==
    { <<>>,
      <<" ">> \o Report,
      Out \o <<"/">> \o ReportMd,
      DotMd,
      Report \o <<".", "M", "D">> }

\* what the operator types at the conflict prompt
AnswerInputs == {<<"o">>, <<"r">>, <<"a">>, <<" ", "A">>, <<"x">>, <<>>}

\* files that may exist when the run starts
OldFiles ==
    { <<ReportMd>>, <<Report1Md>>, <<Out, ReportMd>>, <<Out, Report1Md>>,
      <<DotMd>>, <<Report \o <<".", "M", "D">>>> }

loopVars == <<variant, results, idx, scraped_count, printed, bpc>>

LoopIdle ==
    /\ variant = "folder" /\ results = <<>> /\ idx = 0
    /\ scraped_count = 0 /\ printed = <<>> /\ bpc = "done"

InitPage ==
    /\ \E existing \in SUBSET OldFiles :
          /\ files = [path \in existing |-> "old"]
          /\ dirs = UNION {Prefixes(Parent(path)) : path \in existing}
    /\ files0 = files
    /\ ppc = "ask_url"
    /\ default_filename = Unset /\ output_path = Unset
    /\ markdown_content = "" /\ crawlIssued = FALSE /\ lastAnswer = Unset
    /\ prompts = 0 /\ renameOf = Unset /\ written = Unset
    /\ MapIdle /\ SanIdle /\ LoopIdle

\* url = input(...).strip() is empty: "URL cannot be empty."
EnterEmptyUrl ==
    /\ ppc = "ask_url"
    /\ ppc' = "done"
    /\ UNCHANGED <<default_filename, output_path, markdown_content, crawlIssued,
                   lastAnswer, prompts, files0, renameOf, written,
                   files, dirs, loopVars, mapVars, sanVars>>

EnterUrl ==
    /\ ppc = "ask_url"
    /\ \E u \in PageUrls : default_filename' = generate_default_filename(u)
    /\ ppc' = "ask_filename"
    /\ UNCHANGED <<output_path, markdown_content, crawlIssued,
                   lastAnswer, prompts, files0, renameOf, written,
                   files, dirs, loopVars, mapVars, sanVars>>

\* the filename prompt: the default on an empty line, else the line with ".md"
\* appended unless it ends with it
EnterFilename ==
    /\ ppc = "ask_filename"
    /\ \E line \in FilenameInputs :
          LET chosen_filename_str ==
                  IF Strip(line, {" "}) = <<>> THEN default_filename
                  ELSE WithMd(Strip(line, {" "}))
          IN  output_path' = PathOf(chosen_filename_str)
    /\ ppc' = "conflict"
    /\ UNCHANGED <<default_filename, markdown_content, crawlIssued,
                   lastAnswer, prompts, files0, renameOf, written,
                   files, dirs, loopVars, mapVars, sanVars>>

\* while output_path.exists() is false at once
NoConflict ==
    /\ ppc = "conflict"
    /\ ~Exists(files, dirs, output_path)
    /\ ppc' = "crawl"
    /\ UNCHANGED <<default_filename, output_path, markdown_content, crawlIssued,
                   lastAnswer, prompts, files0, renameOf, written,
                   files, dirs, loopVars, mapVars, sanVars>>

\* one pass of the conflict loop: the prompt and the operator's answer
Answer(ans) ==
    /\ ppc = "conflict"
    /\ Exists(files, dirs, output_path)
    /\ lastAnswer' = <<ans>>
    /\ prompts' = prompts + 1
    /\ ppc' = AfterAnswer(NormalizeAnswer(ans))
    /\ UNCHANGED <<default_filename, markdown_content, crawlIssued, files0, written,
                   files, dirs, loopVars, mapVars, sanVars>>

AnswerOverwrite ==
    \E ans \in AnswerInputs :
        /\ NormalizeAnswer(ans) = <<"o">>
        /\ Answer(ans)
        /\ UNCHANGED <<output_path, renameOf>>

AnswerAbort ==
    \E ans \in AnswerInputs :
        /\ NormalizeAnswer(ans) = <<"a">>
        /\ Answer(ans)
        /\ UNCHANGED <<output_path, renameOf>>

AnswerRename ==
    \E ans \in AnswerInputs :
        /\ NormalizeAnswer(ans) = <<"r">>
        /\ Answer(ans)
        /\ output_path' = RenamedPath(files, dirs, output_path)
        /\ renameOf' = <<output_path>>

AnswerInvalid ==
    \E ans \in AnswerInputs :
        /\ NormalizeAnswer(ans) \notin {<<"o">>, <<"a">>, <<"r">>}
        /\ prompts < MaxPrompts
        /\ Answer(ans)
        /\ UNCHANGED <<output_path, renameOf>>

\* crawler.arun raised: the error is printed and main returns
CrawlRaises ==
    /\ ppc = "crawl"
    /\ crawlIssued' = TRUE
    /\ ppc' = "done"
    /\ UNCHANGED <<default_filename, output_path, markdown_content,
                   lastAnswer, prompts, files0, renameOf, written,
                   files, dirs, loopVars, mapVars, sanVars>>

\* crawler.arun returned: markdown_content is set only from a first result
\* that succeeded and has markdown
CrawlReturns ==
    /\ ppc = "crawl"
    /\ crawlIssued' = TRUE
    /\ \E res \in {<<>>} \cup {<<r>> : r \in [success : BOOLEAN, markdown : {"", "new"}]} :
          markdown_content' =
              IF res # <<>> /\ res[1].success /\ res[1].markdown # ""
              THEN res[1].markdown ELSE ""
    /\ ppc' = "save"
    /\ UNCHANGED <<default_filename, output_path,
                   lastAnswer, prompts, files0, renameOf, written,
                   files, dirs, loopVars, mapVars, sanVars>>

\* "No Markdown content was scraped, nothing to save."
NothingToSave ==
    /\ ppc = "save"
    /\ ~HasContent(markdown_content)
    /\ ppc' = "done"
    /\ UNCHANGED <<default_filename, output_path, markdown_content, crawlIssued,
                   lastAnswer, prompts, files0, renameOf, written,
                   files, dirs, loopVars, mapVars, sanVars>>

\* mkdir or write_text raised OSError
SaveRaises ==
    /\ ppc = "save"
    /\ HasContent(markdown_content)
    /\ \/ UNCHANGED <<files, dirs, written>>
       \/ /\ ~MkdirBlocked(files, Parent(output_path))
          /\ dirs' = Mkdir(dirs, Parent(output_path))
          /\ written' = <<output_path>>
          /\ \E opened \in BOOLEAN :
                files' = IF opened /\ ~WriteBlocked(dirs', output_path)
                         THEN WriteText(files, output_path, Truncated)
                         ELSE files
    /\ ppc' = "done"
    /\ UNCHANGED <<default_filename, output_path, markdown_content, crawlIssued,
                   lastAnswer, prompts, files0, renameOf,
                   loopVars, mapVars, sanVars>>

\* mkdir and write_text completed
SavePage ==
    /\ ppc = "save"
    /\ HasContent(markdown_content)
    /\ ~MkdirBlocked(files, Parent(output_path))
    /\ dirs' = Mkdir(dirs, Parent(output_path))
    /\ ~WriteBlocked(dirs', output_path)
    /\ files' = WriteText(files, output_path, markdown_content)
    /\ written' = <<output_path>>
    /\ ppc' = "done"
    /\ UNCHANGED <<default_filename, output_path, markdown_content, crawlIssued,
                   lastAnswer, prompts, files0, renameOf,
                   loopVars, mapVars, sanVars>>

NextPage ==
    \/ EnterEmptyUrl \/ EnterUrl \/ EnterFilename
    \/ NoConflict \/ AnswerOverwrite \/ AnswerAbort \/ AnswerRename \/ AnswerInvalid
    \/ CrawlRaises \/ CrawlReturns
    \/ NothingToSave \/ SaveRaises \/ SavePage

SpecPage == InitPage /\ [][NextPage]_vars

(***************************************************************************)
(* Claims about the single-page run                                        *)
(***************************************************************************)
EndsWithMd(name) == EndsWith(Lower(name), DotMd)

\* C4 (as claimed): every filename the single-page script produces (the default
\* name, the chosen name, the renamed name) ends with ".md" compared
\* case-insensitively, and the default name never ends with ".md.md".
C4_NamesEndWithMd ==
    /\ default_filename # Unset =>
           /\ EndsWithMd(default_filename)
           /\ ~EndsWith(Lower(default_filename), DotMd \o DotMd)
    /\ output_path # Unset => EndsWithMd(FileName(output_path))

\* the directories that exist when the run starts
Dirs0 == UNION {Prefixes(Parent(path)) : path \in DOMAIN files0}

\* base_k.ext next to the target base.ext
BesideTarget(target, k) ==
    Parent(target) \o <<Stem(FileName(target)) \o <<"_">> \o Str(k)
                            \o Suffix(FileName(target))>>

\* C5 (as claimed): after Rename was chosen for the existing target base.ext,
\* the path written is base_k.ext for the smallest k >= 1 with base_k.ext unused,
\* and that path does not exist when the content is written.
C5_RenameSmallestUnused ==
    (renameOf # Unset /\ written # Unset) =>
        LET target == renameOf[1]
            free   == {k \in 1..Len(Digits) : ~Exists(files0, Dirs0, BesideTarget(target, k))}
        IN  /\ written[1] = BesideTarget(target, Max({k \in free : \A d \in free : k <= d}))
            /\ ~Exists(files0, Dirs0, written[1])

IsAbort(ans) == NormalizeAnswer(ans) = <<"a">>
IsInvalid(ans) == NormalizeAnswer(ans) \notin {<<"o">>, <<"r">>, <<"a">>}

\* the step is an answer to the conflict prompt
Answered == ppc = "conflict" /\ prompts' = prompts + 1

\* C10: on Abort the run ends having issued no crawl and with every file as it
\* was, and nothing happens afterwards; on an answer other than o, r, a nothing
\* changes and the same prompt (same path, still existing) is up again.
C10_AbortAndReprompt ==
    [][ /\ (Answered /\ IsAbort(lastAnswer'[1])) =>
              /\ ppc' = "done"
              /\ ~crawlIssued'
              /\ files' = files0 /\ dirs' = dirs /\ written' = Unset
        /\ (Answered /\ IsInvalid(lastAnswer'[1])) =>
              /\ ppc' = "conflict"
              /\ output_path' = output_path
              /\ files' = files /\ dirs' = dirs
              /\ Exists(files', dirs', output_path')
              /\ ~crawlIssued'
        /\ ppc # "done"
      ]_vars

\* the operator answered something invalid and then Abort: the run is over and
\* the existing target still holds what it held
C10_Witness ==
    /\ ppc = "done"
    /\ prompts = 2
    /\ IsAbort(lastAnswer[1])
    /\ ~crawlIssued
    /\ output_path \in DOMAIN files
    /\ files[output_path] = "old"

\* C14 (as claimed): after Rename was chosen for an existing target, the path
\* that was probed and is written lies in the target's directory and differs
\* from the target only by the numeric suffix.
C14_RenameStaysInDirectory ==
    renameOf # Unset =>
        /\ Parent(output_path) = Parent(renameOf[1])
        /\ \E k \in 1..Len(Digits) : output_path = BesideTarget(renameOf[1], k)
        /\ written # Unset => written[1] = output_path

\* C15: when the crawl raised, returned no result, reported failure or returned
\* empty markdown, every file and directory is as it was when the run started
\* and nothing was written, whatever the operator answered before the crawl.
C15_FailedCrawlWritesNothing ==
    (crawlIssued /\ markdown_content = "") =>
        /\ files = files0
        /\ dirs = Dirs0
        /\ written = Unset

\* the operator chose Overwrite for an existing target, the crawl brought no
\* content, and the run is over with the target holding what it held
C15_Witness ==
    /\ ppc = "done"
    /\ crawlIssued
    /\ markdown_content = ""
    /\ lastAnswer # Unset /\ NormalizeAnswer(lastAnswer[1]) = <<"o">>
    /\ output_path \in DOMAIN files
    /\ files[output_path] = "old"

====
